---------------------------- MODULE Spec2Model ----------------------------
(***************************************************************************)
(* Option pricing engines of option_pricing/option_lib.py:                 *)
(*   Option._payoff, AmericanOption (binomial lattice: forward, backward,  *)
(*   price, delta, vega) and EuropeanOption (Monte Carlo price), driven as *)
(*   option_pricing.py's main() drives them.                               *)
(*                                                                         *)
(* Python floats are modelled as fixed-point integers with SCALE units per *)
(* 1.0; math.exp and math.sqrt are computed in that fixed point.  A Python *)
(* value is a record [type, val]; a raised exception is a record whose     *)
(* type is the exception's class.  Lists are sequences, so the Python      *)
(* index [i][j] is [i + 1][j + 1] here.                                    *)
(***************************************************************************)
EXTENDS Integers, Sequences, FiniteSets, TLC

VARIABLES opt,   \* the option object under test (its attributes)
          sim,   \* vega()'s local sim_option, as its last call left it
          rng,   \* the state of the module-level generator of `random`
          ret,   \* the last call: its name, argument and outcome
          other, \* a second EuropeanOption, as main() constructs two
          priced \* the outcome of each European engine's last price() in
                 \* main(), with the seed and the use of the generator it
                 \* started from

vars == <<opt, sim, rng, ret, other, priced>>

---------------------------------------------------------------------------
(* Bounds of the model *)

\* fixed-point units per 1.0
SCALE == 1000
\* largest `steps` (lattice levels, Monte Carlo scenarios) constructed
MaxSteps == 3
\* gauss() calls after which no further Monte Carlo pricing is started
MaxDraws == 4
\* terms of the exponential series after the leading 1
ExpTerms == 8

---------------------------------------------------------------------------
(* float arithmetic *)

Max(a, b) == IF a >= b THEN a ELSE b

\* n / d rounded down, for either sign of d (d # 0)
FDiv(n, d) == IF d > 0 THEN n \div d ELSE (-n) \div (-d)

\* int -> float
ToFloat(n) == n * SCALE

\* float * float
Mul(a, b) == FDiv(a * b, SCALE)

\* float / float, b # 0
Div(a, b) == FDiv(a * SCALE, b)

RECURSIVE ExpSeries(_, _, _)
\* sum of the series terms x^k / k! for k = k..ExpTerms, given term = x^(k-1)/(k-1)!
ExpSeries(x, term, k) ==
    IF k > ExpTerms THEN 0
    ELSE LET t == FDiv(Mul(term, x), k)
         IN  t + ExpSeries(x, t, k + 1)

\* math.exp
Exp(x) == IF x >= 0 THEN SCALE + ExpSeries(x, SCALE, 1)
          ELSE Div(SCALE, SCALE + ExpSeries(-x, SCALE, 1))

RECURSIVE SqrtSearch(_, _, _)
\* the largest r in lo..hi with r * r <= n
SqrtSearch(n, lo, hi) ==
    IF lo >= hi THEN lo
    ELSE LET mid == (lo + hi + 1) \div 2
         IN  IF mid * mid <= n THEN SqrtSearch(n, mid, hi)
             ELSE SqrtSearch(n, lo, mid - 1)

\* math.sqrt, x >= 0
Sqrt(x) == SqrtSearch(x * SCALE, 0, Max(x, SCALE))

---------------------------------------------------------------------------
(* Python values and outcomes *)

PyFloat(x) == [type |-> "float", val |-> x]
PyNone == [type |-> "NoneType", val |-> 0]
Raise(e) == [type |-> e, val |-> 0]

Exceptions == {"ZeroDivisionError", "TypeError", "IndexError"}
Raised(r) == r.type \in Exceptions
IsFloat(r) == r.type = "float"


---------------------------------------------------------------------------
(* option_pricing.py: the parameters main() prices with *)

CURRENT_STOCK_PRICE == 20
VOLATILITY == (35 * SCALE) \div 100
INTEREST == (298 * SCALE) \div 10000
DIVIDEND_YIELD == (15 * SCALE) \div 1000
EXPIRY_YEARS == SCALE \div 2
SEED == 42

---------------------------------------------------------------------------
(* class Option *)

\* OptionType has the members CALL and PUT; "OTHER" is any other object
\* passed as option_type (the constructor does not check it)
OptionType == {"CALL", "PUT"}

\* the value None of cached_price_tree / cached_payoff_tree
NoTree == <<>>

_payoff_call_only(self, stock_price) ==
    IF self.option_type \in OptionType
    THEN PyFloat(Max(0, stock_price - self.strike_price))
    ELSE PyNone

\* Option._payoff: no branch is taken, and None is returned, when
\* option_type is neither member
_payoff(self, stock_price) ==
    IF self.option_type = "CALL"
    THEN PyFloat(Max(0, stock_price - self.strike_price))
    ELSE IF self.option_type = "PUT"
    THEN PyFloat(Max(0, self.strike_price - stock_price))
    ELSE PyNone

---------------------------------------------------------------------------
(* class AmericanOption *)

AmericanOption(option_type, current_stock_price, strike_price, interest, volatility, dividend_yield, steps) ==
    [cls |-> "AmericanOption",
     strike_price |-> strike_price,
     steps |-> steps,
     dividend_yield |-> dividend_yield,
     volatility |-> volatility,
     interest |-> interest,
     current_stock_price |-> current_stock_price,
     option_type |-> option_type,
     cached_price_tree |-> NoTree,
     cached_payoff_tree |-> NoTree]

StepFraction_of_expiry(self) == Div(EXPIRY_YEARS, ToFloat(self.steps))

\* 1 / self.steps; every call site runs only when steps >= 2
StepFraction(self) == Div(ToFloat(1), ToFloat(self.steps))

_compound(self) ==
    Exp(Mul(self.interest - self.dividend_yield, StepFraction(self)))

_uncertainty(self) ==
    Exp(Mul(self.volatility, Sqrt(StepFraction(self))))

\* lines 192 and 150: node * self._compound() * self._uncertainty()
UpState(self, node) == Mul(Mul(node, _compound(self)), _uncertainty(self))

\* lines 193 and 151: node * self._compound() / self._uncertainty()
DownState(self, node) == Div(Mul(node, _compound(self)), _uncertainty(self))

RECURSIVE ForwardNodes_merging(_, _, _, _)
ForwardNodes_merging(self, level, j, nodes) ==
    IF j > Len(level) THEN nodes
    ELSE ForwardNodes_merging(self, level, j + 1,
            IF nodes # <<>> /\ nodes[Len(nodes)] = UpState(self, level[j])
            THEN Append(nodes, DownState(self, level[j]))
            ELSE Append(Append(nodes, UpState(self, level[j])),
                        DownState(self, level[j])))

RECURSIVE ForwardNodes(_, _, _, _)
\* forward(), lines 191-196: for previous_node in tree[i], from the j-th
\* node on, with `nodes` the level appended to so far
ForwardNodes(self, level, j, nodes) ==
    IF j > Len(level) THEN nodes
    ELSE ForwardNodes(self, level, j + 1,
                      Append(Append(nodes, UpState(self, level[j])),
                             DownState(self, level[j])))

RECURSIVE ForwardLoop(_, _, _)
\* forward(), line 189: for i in range(self.steps - 1)
ForwardLoop(self, tree, i) ==
    IF i >= self.steps - 1 THEN tree
    ELSE ForwardLoop(self,
                     Append(tree, ForwardNodes(self, tree[i + 1], 1, <<>>)),
                     i + 1)

\* forward(), lines 198-199
ForwardStore(self, tree) ==
    [self |-> [self EXCEPT !.cached_price_tree = tree], tree |-> tree]

\* forward(): [self after the call, the tree returned]
forward(self) ==
    IF self.cached_price_tree # NoTree
    THEN [self |-> self, tree |-> self.cached_price_tree]
    ELSE ForwardStore(self, ForwardLoop(self, << <<self.current_stock_price>> >>, 0))

UpProbability_guarded(compound, u, d) ==
    IF u - d = 0 THEN PyFloat(SCALE \div 2)
    ELSE PyFloat(Div(compound - d, u - d))

\* _american_payoff(), line 255: p = (self._compound() - d) / (u - d)
UpProbability(compound, u, d) ==
    IF u - d = 0 THEN Raise("ZeroDivisionError")
    ELSE PyFloat(Div(compound - d, u - d))

\* _american_payoff(), line 257, its operands floats
HoldPayoff(self, p, up_state_price, down_state_price) ==
    Mul(Exp(Mul(-self.interest, StepFraction(self))),
        Mul(p, up_state_price) + Mul(ToFloat(1) - p, down_state_price))

ExerciseOrHold_hold_only(hold_payoff, exercise_payoff) ==
    IF ~IsFloat(exercise_payoff) THEN Raise("TypeError")
    ELSE PyFloat(hold_payoff)

\* _american_payoff(), line 259: max(hold_payoff, exercise_payoff)
ExerciseOrHold(hold_payoff, exercise_payoff) ==
    IF ~IsFloat(exercise_payoff) THEN Raise("TypeError")
    ELSE PyFloat(Max(hold_payoff, exercise_payoff.val))

\* _american_payoff(), lines 257-259, given the outcome p of lines 253-255
AmericanPayoffWith(self, p, stock_price, up_state_price, down_state_price) ==
    IF Raised(p) THEN p
    ELSE IF ~IsFloat(up_state_price) \/ ~IsFloat(down_state_price)
    THEN Raise("TypeError")
    ELSE ExerciseOrHold(HoldPayoff(self, p.val, up_state_price.val,
                                   down_state_price.val),
                        _payoff(self, stock_price))

\* _american_payoff(): the node's value, or the exception it raises
_american_payoff(self, stock_price, up_state_price, down_state_price) ==
    AmericanPayoffWith(self,
                       UpProbability(_compound(self),
                                     Mul(_compound(self), _uncertainty(self)),
                                     Div(_compound(self), _uncertainty(self))),
                       stock_price, up_state_price, down_state_price)

RECURSIVE BackwardNodes(_, _, _, _, _)
RECURSIVE BackwardNode(_, _, _, _, _, _)
\* backward(), lines 226-230: for j in range(len(price_tree[i])), from the
\* j-th node of `level` on, `below` the payoffs of the next level and
\* `nodes` the payoffs appended so far; the exception raised or ""
BackwardNodes(self, level, below, j, nodes) ==
    IF j > Len(level) THEN [raised |-> "", nodes |-> nodes]
    ELSE BackwardNode(self, level, below, j, nodes,
                      _american_payoff(self, level[j], below[2 * j - 1],
                                       below[2 * j]))

\* backward(), line 230: payoff_tree[i].append(payoff)
BackwardNode(self, level, below, j, nodes, payoff) ==
    IF Raised(payoff) THEN [raised |-> payoff.type, nodes |-> nodes]
    ELSE BackwardNodes(self, level, below, j + 1, Append(nodes, payoff))


RECURSIVE BackwardLoop(_, _, _, _)
RECURSIVE BackwardLevel(_, _, _, _, _)
\* backward(), lines 224-230: for i in range(self.steps - 2, -1, -1), with
\* `payoff_tree` the levels i + 1 .. filled so far
BackwardLoop(self, price_tree, payoff_tree, i) ==
    IF i < 0 THEN [raised |-> "", tree |-> payoff_tree]
    ELSE BackwardLevel(self, price_tree, payoff_tree, i,
                       BackwardNodes(self, price_tree[i + 1], payoff_tree[1],
                                     1, <<>>))

\* one level of backward()'s loop done: the exception leaves, or the next
\* level up is filled
BackwardLevel(self, price_tree, payoff_tree, i, level) ==
    IF level.raised # "" THEN [raised |-> level.raised, tree |-> NoTree]
    ELSE BackwardLoop(self, price_tree, <<level.nodes>> \o payoff_tree, i - 1)

RECURSIVE LastLevel(_, _, _, _)
\* backward(), lines 218-219: the payoffs of the last level
LastLevel(self, level, j, nodes) ==
    IF j > Len(level) THEN nodes
    ELSE LastLevel(self, level, j + 1, Append(nodes, _payoff(self, level[j])))

\* backward(), lines 232-233, or the exception passing through
BackwardStore(self, r) ==
    IF r.raised # ""
    THEN [self |-> self, raised |-> r.raised, tree |-> NoTree]
    ELSE [self |-> [self EXCEPT !.cached_payoff_tree = r.tree],
          raised |-> "", tree |-> r.tree]

\* backward(price_tree): [self after the call, the exception raised or "",
\* the tree returned]
backward(self, price_tree) ==
    IF self.cached_payoff_tree # NoTree
    THEN [self |-> self, raised |-> "", tree |-> self.cached_payoff_tree]
    ELSE BackwardStore(self,
            BackwardLoop(self, price_tree,
                         <<LastLevel(self, price_tree[Len(price_tree)], 1, <<>>)>>,
                         self.steps - 2))

\* lines 135-136 and 146-147: self.backward(stock_price_tree) with
\* f the outcome of stock_price_tree = self.forward()
BackwardOf(f) == backward(f.self, f.tree)

\* price(), line 137, b the outcome of line 136
PriceOf(b) ==
    IF b.raised # "" THEN [self |-> b.self, out |-> Raise(b.raised)]
    ELSE [self |-> b.self, out |-> b.tree[1][1]]

\* AmericanOption.price(): [self after the call, the value returned or the
\* exception raised]
price(self) == PriceOf(BackwardOf(forward(self)))

\* delta(), line 152
Quotient(c_u, c_d, s_u, s_d) ==
    IF ~IsFloat(c_u) \/ ~IsFloat(c_d) THEN Raise("TypeError")
    ELSE IF s_u - s_d = 0 THEN Raise("ZeroDivisionError")
    ELSE PyFloat(Div(c_u.val - c_d.val, s_u - s_d))

DeltaOf_root_as_children(self, b) ==
    IF b.raised # "" THEN [self |-> b.self, out |-> Raise(b.raised)]
    ELSE IF Len(b.tree) < 2
    THEN [self |-> b.self,
          out |-> Quotient(b.tree[1][1], b.tree[1][1],
                           self.current_stock_price + 1,
                           self.current_stock_price)]
    ELSE [self |-> b.self,
          out |-> Quotient(b.tree[2][1], b.tree[2][2],
                           UpState(self, self.current_stock_price),
                           DownState(self, self.current_stock_price))]

DeltaOf_without_compound(self, b) ==
    IF b.raised # "" THEN [self |-> b.self, out |-> Raise(b.raised)]
    ELSE IF Len(b.tree) < 2 THEN [self |-> b.self, out |-> Raise("IndexError")]
    ELSE [self |-> b.self,
          out |-> Quotient(b.tree[2][1], b.tree[2][2],
                           Mul(self.current_stock_price, _uncertainty(self)),
                           Div(self.current_stock_price, _uncertainty(self)))]

\* delta(), lines 148-152, b the outcome of line 147
DeltaOf(self, b) ==
    IF b.raised # "" THEN [self |-> b.self, out |-> Raise(b.raised)]
    ELSE IF Len(b.tree) < 2 THEN [self |-> b.self, out |-> Raise("IndexError")]
    ELSE [self |-> b.self,
          out |-> Quotient(b.tree[2][1], b.tree[2][2],
                           UpState(self, self.current_stock_price),
                           DownState(self, self.current_stock_price))]

\* AmericanOption.delta(): [self after the call, the value returned or the
\* exception raised]
delta(self) == DeltaOf(self, BackwardOf(forward(self)))

\* no object: vega()'s sim_option outside a vega() call that built it
NoObject == [cls |-> "NoneType"]

VegaQuotient_per_unit_volatility(self, delta_sigma, original_price, sim_price) ==
    IF ~IsFloat(sim_price) \/ ~IsFloat(original_price) THEN Raise("TypeError")
    ELSE IF Mul(self.volatility, delta_sigma) = 0 THEN Raise("ZeroDivisionError")
    ELSE PyFloat(Div(sim_price.val - original_price.val,
                     Mul(self.volatility, delta_sigma)))

\* vega(), line 175
VegaQuotient(self, delta_sigma, original_price, sim_price) ==
    IF ~IsFloat(sim_price) \/ ~IsFloat(original_price) THEN Raise("TypeError")
    ELSE IF delta_sigma = 0 THEN Raise("ZeroDivisionError")
    ELSE PyFloat(Div(sim_price.val - original_price.val, delta_sigma))

\* vega(), lines 166-172
SimOption(self, delta_sigma) ==
    AmericanOption(self.option_type,
                   self.current_stock_price,
                   self.strike_price,
                   self.interest,
                   Mul(self.volatility, ToFloat(1) + delta_sigma),
                   self.dividend_yield,
                   self.steps)

VegaOf_shared_lattices(self, delta_sigma, original, simulated) ==
    IF Raised(simulated.out)
    THEN [self |-> original.self, sim |-> simulated.self, out |-> simulated.out]
    ELSE [self |-> [original.self EXCEPT
                      !.cached_price_tree = simulated.self.cached_price_tree,
                      !.cached_payoff_tree = simulated.self.cached_payoff_tree],
          sim |-> simulated.self,
          out |-> VegaQuotient(self, delta_sigma, original.out, simulated.out)]

VegaOf_in_place(self, delta_sigma, original, simulated) ==
    IF Raised(simulated.out)
    THEN [self |-> simulated.self, sim |-> simulated.self, out |-> simulated.out]
    ELSE [self |-> simulated.self, sim |-> simulated.self,
          out |-> VegaQuotient(self, delta_sigma, original.out, simulated.out)]

\* vega(), lines 173-175, `original` the outcome of line 164 and
\* `simulated` that of sim_option.price()
VegaOf(self, delta_sigma, original, simulated) ==
    IF Raised(simulated.out)
    THEN [self |-> original.self, sim |-> simulated.self, out |-> simulated.out]
    ELSE [self |-> original.self, sim |-> simulated.self,
          out |-> VegaQuotient(self, delta_sigma, original.out, simulated.out)]

\* vega(), from line 166 on, `original` the outcome of line 164
VegaAfter(self, delta_sigma, original) ==
    IF Raised(original.out)
    THEN [self |-> original.self, sim |-> NoObject, out |-> original.out]
    ELSE VegaOf(self, delta_sigma, original, price(SimOption(self, delta_sigma)))

\* AmericanOption.vega(delta_sigma): [self after the call, sim_option after
\* the call, the value returned or the exception raised]
vega(self, delta_sigma) == VegaAfter(self, delta_sigma, price(self))

---------------------------------------------------------------------------
(* module random: the shared generator that random.seed() and            *)
(* random.gauss() act on.  Its state is the seed and the number of gauss() *)
(* calls since; the stream of a seed is fixed.                             *)

Variates == <<-SCALE, SCALE \div 2, 0, SCALE, -(SCALE \div 2)>>

\* random.seed(a)
seed(a) == [seed |-> a, pos |-> 0]

\* random.gauss(mu=0, sigma=1): [the variate, the generator after the call]
gauss(g) ==
    [value |-> Variates[((g.seed * (g.pos + 1) + g.pos) % Len(Variates)) + 1],
     rng |-> [g EXCEPT !.pos = @ + 1]]

---------------------------------------------------------------------------
(* class EuropeanOption *)

EuropeanOption(option_type, current_stock_price, strike_price, interest, volatility, dividend_yield, steps, time_period) ==
    [cls |-> "EuropeanOption",
     strike_price |-> strike_price,
     steps |-> steps,
     dividend_yield |-> dividend_yield,
     volatility |-> volatility,
     interest |-> interest,
     current_stock_price |-> current_stock_price,
     option_type |-> option_type,
     time_period |-> time_period]

_calculate_stock_price(self, epsilon) ==
    Mul(Exp(Mul(self.interest - self.dividend_yield
                  - Mul(Div(ToFloat(1), ToFloat(2)),
                        Mul(self.volatility, self.volatility)),
                self.time_period)
            + Mul(Mul(epsilon, self.volatility), Sqrt(self.time_period))),
        self.current_stock_price)

_discount(self, asset_price) ==
    Mul(Exp(Mul(-self.interest, self.time_period)), asset_price)

ScenarioPayoff_undiscounted(self, epsilon) ==
    _payoff(self, _calculate_stock_price(self, epsilon))

\* price(), lines 330-332: the payoff of one scenario, epsilon the variate
ScenarioPayoff(self, epsilon) ==
    _payoff(self, _discount(self, _calculate_stock_price(self, epsilon)))

RECURSIVE MonteCarloLoop(_, _, _, _)
RECURSIVE MonteCarloStep(_, _, _, _, _)
\* price(), lines 329-333: for i in range(self.steps), from iteration i on:
\* [the exception raised or "", sum_payoffs, the generator afterwards]
MonteCarloLoop(self, g, i, sum_payoffs) ==
    IF i >= self.steps THEN [raised |-> "", sum |-> sum_payoffs, rng |-> g]
    ELSE MonteCarloStep(self, gauss(g).rng, i, sum_payoffs,
                        ScenarioPayoff(self, gauss(g).value))

\* price(), line 333: sum_payoffs += payoff
MonteCarloStep(self, g, i, sum_payoffs, payoff) ==
    IF ~IsFloat(payoff) THEN [raised |-> "TypeError", sum |-> sum_payoffs, rng |-> g]
    ELSE MonteCarloLoop(self, g, i + 1, sum_payoffs + payoff.val)

\* price(), line 335, r the outcome of the loop
MeanOf(self, r) ==
    IF r.raised # "" THEN [out |-> Raise(r.raised), rng |-> r.rng]
    ELSE IF self.steps = 0 THEN [out |-> Raise("ZeroDivisionError"), rng |-> r.rng]
    ELSE [out |-> PyFloat(FDiv(r.sum, self.steps)), rng |-> r.rng]

\* EuropeanOption.price(): [the value returned or the exception raised, the
\* generator after the call]
european_price(self, g) == MeanOf(self, MonteCarloLoop(self, g, 0, 0))

---------------------------------------------------------------------------
(* The arguments callers pass.  No constructor checks an argument, so the  *)
(* sets hold out-of-range values beside the ones main() uses.              *)

OptionTypes == OptionType \cup {"OTHER"}
StockPrices == {0, ToFloat(CURRENT_STOCK_PRICE)}
\* main(): strike_price = CURRENT_STOCK_PRICE * (1 + INTEREST)
ForwardStrike == Mul(ToFloat(CURRENT_STOCK_PRICE), ToFloat(1) + INTEREST)
StrikePrices == {0, ToFloat(CURRENT_STOCK_PRICE - 2), ForwardStrike}
Volatilities == {-VOLATILITY, 0, VOLATILITY}
StepCounts == 0..MaxSteps
TimePeriods == {0, EXPIRY_YEARS}
\* vega(): the default delta_sigma of 0.01, ten times it, and 0
DeltaSigmas == {0, SCALE \div 100, SCALE \div 10}
Seeds == {SEED, SEED + 1}
\* stock prices _payoff is called with: 0, and the strike and its neighbours
PayoffPrices(self) ==
    {s \in {0, self.strike_price - SCALE, self.strike_price,
            self.strike_price + SCALE} : s >= 0}

\* the arguments of `a` outside the range the data model gives them
OutOfRange(a) ==
    (IF a.option_type \notin OptionType THEN {"option_type"} ELSE {})
    \cup (IF a.current_stock_price <= 0 THEN {"current_stock_price"} ELSE {})
    \cup (IF a.strike_price <= 0 THEN {"strike_price"} ELSE {})
    \cup (IF a.volatility < 0 THEN {"volatility"} ELSE {})
    \cup (IF a.steps < 1 THEN {"steps"} ELSE {})

\* the constructor calls made: every argument in range, or one of them
\* (time_period included) out of it
ConstructorArguments ==
    {a \in [option_type : OptionTypes, current_stock_price : StockPrices,
            strike_price : StrikePrices, volatility : Volatilities,
            steps : StepCounts] : Cardinality(OutOfRange(a)) <= 1}

Call(op, arg, out) == [op |-> op, arg |-> arg, out |-> out]

\* a local of main() not assigned yet
NotPriced == [out |-> PyNone, seed |-> 0, fresh |-> FALSE]

\* main(): neither European price assigned yet
NoPrices == [european_call |-> NotPriced, european_put |-> NotPriced]

---------------------------------------------------------------------------
(* The state machine *)

\* AmericanOption(...): the objects the constructor returns
AmericanOptions ==
    {AmericanOption(a.option_type, a.current_stock_price, a.strike_price,
                    INTEREST, a.volatility, DIVIDEND_YIELD, a.steps) :
        a \in ConstructorArguments}

\* EuropeanOption(...): the objects the constructor returns
EuropeanOptions ==
    {EuropeanOption(c[1].option_type, c[1].current_stock_price,
                    c[1].strike_price, INTEREST, c[1].volatility,
                    DIVIDEND_YIELD, c[1].steps, c[2]) :
        c \in {x \in ConstructorArguments \X TimePeriods :
                  OutOfRange(x[1]) = {} \/ x[2] > 0}}

\* main(): random.seed(SEED), then an option constructed
Init ==
    /\ opt \in AmericanOptions \cup EuropeanOptions
    /\ sim = NoObject
    /\ rng = seed(SEED)
    /\ ret = Call("__init__", 0, PyNone)
    /\ other = NoObject
    /\ priced = NoPrices

Seed_without_restart ==
    \E a \in Seeds :
        /\ rng' = [rng EXCEPT !.seed = a]
        /\ sim' = NoObject
        /\ ret' = Call("seed", a, PyNone)
        /\ UNCHANGED <<opt, other, priced>>

\* random.seed(a)
Seed ==
    \E a \in Seeds :
        /\ rng' = seed(a)
        /\ sim' = NoObject
        /\ ret' = Call("seed", a, PyNone)
        /\ UNCHANGED <<opt, other, priced>>

\* opt._payoff(stock_price)
Payoff ==
    \E stock_price \in PayoffPrices(opt) :
        /\ ret' = Call("_payoff", stock_price, _payoff(opt, stock_price))
        /\ sim' = NoObject
        /\ UNCHANGED <<opt, rng, other, priced>>

\* opt.forward()
Forward ==
    /\ opt.cls = "AmericanOption"
    /\ opt' = forward(opt).self
    /\ sim' = NoObject
    /\ ret' = Call("forward", 0, [type |-> "list", val |-> 0])
    /\ UNCHANGED <<rng, other, priced>>

\* opt.backward(opt.forward()), the call price() and delta() make
Backward ==
    /\ opt.cls = "AmericanOption"
    /\ \E b \in {BackwardOf(forward(opt))} :
        /\ opt' = b.self
        /\ ret' = Call("backward", 0,
                       IF b.raised # "" THEN Raise(b.raised)
                       ELSE [type |-> "list", val |-> 0])
    /\ sim' = NoObject
    /\ UNCHANGED <<rng, other, priced>>

\* opt.price() on an AmericanOption
AmericanPrice ==
    /\ opt.cls = "AmericanOption"
    /\ \E r \in {price(opt)} :
        /\ opt' = r.self
        /\ ret' = Call("price", 0, r.out)
    /\ sim' = NoObject
    /\ UNCHANGED <<rng, other, priced>>

\* opt.delta()
Delta ==
    /\ opt.cls = "AmericanOption"
    /\ \E r \in {delta(opt)} :
        /\ opt' = r.self
        /\ ret' = Call("delta", 0, r.out)
    /\ sim' = NoObject
    /\ UNCHANGED <<rng, other, priced>>

\* opt.vega(delta_sigma)
Vega ==
    /\ opt.cls = "AmericanOption"
    /\ \E delta_sigma \in DeltaSigmas :
        \E r \in {vega(opt, delta_sigma)} :
            /\ opt' = r.self
            /\ sim' = r.sim
            /\ ret' = Call("vega", delta_sigma, r.out)
    /\ UNCHANGED <<rng, other, priced>>

\* opt.price() on a EuropeanOption
EuropeanPrice ==
    /\ opt.cls = "EuropeanOption"
    /\ rng.pos + opt.steps <= MaxDraws
    /\ \E r \in {european_price(opt, rng)} :
        /\ rng' = r.rng
        /\ ret' = Call("price", 0, r.out)
    /\ sim' = NoObject
    /\ UNCHANGED <<opt, other, priced>>

Next ==
    \/ Seed
    \/ Payoff
    \/ Forward
    \/ Backward
    \/ AmericanPrice
    \/ Delta
    \/ Vega
    \/ EuropeanPrice

Spec == Init /\ [][Next]_vars

---------------------------------------------------------------------------
(* main(), lines 46-66: two EuropeanOption objects priced from the one     *)
(* generator of module random                                              *)

\* the second engine constructed: the arguments of the first, but possibly
\* the option type (as european_put) and the number of scenarios
SecondEngines(first) ==
    {[first EXCEPT !.option_type = t, !.steps = n] :
        t \in OptionType \cup {first.option_type},
        n \in (1..MaxSteps) \cup {first.steps}}

\* main(): random.seed(SEED), then the two engines constructed
InitMC ==
    /\ opt \in EuropeanOptions
    /\ other \in SecondEngines(opt)
    /\ sim = NoObject
    /\ rng = seed(SEED)
    /\ ret = Call("__init__", 0, PyNone)
    /\ priced = NoPrices

\* the call about to be made is the first use of the generator since
\* random.seed()
FirstUse == ret.op \in {"__init__", "seed"}

\* what main() keeps of a price() call that ended in `out`
Priced(out) == [out |-> out, seed |-> rng.seed, fresh |-> FirstUse]

\* main(), line 55: european_call_price = european_call.price()
PriceCall ==
    /\ rng.pos + opt.steps <= MaxDraws
    /\ \E r \in {european_price(opt, rng)} :
        /\ rng' = r.rng
        /\ ret' = Call("price", "european_call", r.out)
        /\ priced' = [priced EXCEPT !.european_call = Priced(r.out)]
    /\ UNCHANGED <<opt, other, sim>>

\* main(), line 66: european_put_price = european_put.price()
PricePut ==
    /\ rng.pos + other.steps <= MaxDraws
    /\ \E r \in {european_price(other, rng)} :
        /\ rng' = r.rng
        /\ ret' = Call("price", "european_put", r.out)
        /\ priced' = [priced EXCEPT !.european_put = Priced(r.out)]
    /\ UNCHANGED <<opt, other, sim>>

NextMC ==
    \/ Seed
    \/ PriceCall
    \/ PricePut

SpecMC == InitMC /\ [][NextMC]_vars

---------------------------------------------------------------------------
(* A caller that assigns attributes of an AmericanOption after using it:   *)
(* the attributes Option.__init__ sets are plain instance attributes, and   *)
(* no method stands between a caller and an assignment to them.            *)

\* the engines main() constructs, and their like with other in-range
\* arguments
InitMutable ==
    /\ opt \in {o \in AmericanOptions :
                  /\ o.option_type \in OptionType
                  /\ o.steps >= 1
                  /\ o.current_stock_price > 0
                  /\ o.strike_price > 0
                  /\ o.volatility >= 0}
    /\ sim = NoObject
    /\ rng = seed(SEED)
    /\ ret = Call("__init__", 0, PyNone)
    /\ other = NoObject
    /\ priced = NoPrices

\* opt.volatility = value, opt.strike_price = value or
\* opt.current_stock_price = value, by a caller
SetAttribute ==
    /\ opt.cls = "AmericanOption"
    /\ \/ \E value \in Volatilities \ {opt.volatility} :
            /\ opt' = [opt EXCEPT !.volatility = value]
            /\ ret' = Call("volatility =", value, PyNone)
       \/ \E value \in StrikePrices \ {opt.strike_price} :
            /\ opt' = [opt EXCEPT !.strike_price = value]
            /\ ret' = Call("strike_price =", value, PyNone)
       \/ \E value \in StockPrices \ {opt.current_stock_price} :
            /\ opt' = [opt EXCEPT !.current_stock_price = value]
            /\ ret' = Call("current_stock_price =", value, PyNone)
    /\ sim' = NoObject
    /\ UNCHANGED <<rng, other, priced>>

NextMutable ==
    \/ SetAttribute
    \/ Forward
    \/ Backward
    \/ AmericanPrice
    \/ Delta

SpecMutable == InitMutable /\ [][NextMutable]_vars

---------------------------------------------------------------------------
(* Properties *)

IsAmerican == opt.cls = "AmericanOption"
IsEuropean == opt.cls = "EuropeanOption"
PriceLattice == opt.cached_price_tree
PayoffLattice == opt.cached_payoff_tree

\* C1: _payoff(s) of a CALL is max(0, s - strike) and of a PUT is
\* max(0, strike - s) for every stock price s >= 0: a CALL pays 0 at
\* s = strike and 1 at s = strike + 1, and no payoff is negative.
C1_PayoffIsIntrinsicValue ==
    (ret.op = "_payoff" /\ opt.option_type \in OptionType) =>
        /\ IsFloat(ret.out)
        /\ ret.out.val >= 0
        /\ opt.option_type = "CALL" =>
              ret.out.val = (IF ret.arg > opt.strike_price
                             THEN ret.arg - opt.strike_price ELSE 0)
        /\ opt.option_type = "PUT" =>
              ret.out.val = (IF opt.strike_price > ret.arg
                             THEN opt.strike_price - ret.arg ELSE 0)
        /\ (opt.option_type = "CALL" /\ ret.arg = opt.strike_price) =>
              ret.out.val = 0
        /\ (opt.option_type = "CALL" /\ ret.arg = opt.strike_price + ToFloat(1)) =>
              ret.out.val = ToFloat(1)

\* a CALL struck above 0 was asked its payoff one above the strike
C1_Witness ==
    /\ ret.op = "_payoff"
    /\ opt.option_type = "CALL"
    /\ opt.strike_price > 0
    /\ ret.arg = opt.strike_price + ToFloat(1)
    /\ ret.out = PyFloat(ToFloat(1))

\* the risk-neutral up-probability of the engine, u # d
C2_p(self) ==
    Div(_compound(self) - Div(_compound(self), _uncertainty(self)),
        Mul(_compound(self), _uncertainty(self))
          - Div(_compound(self), _uncertainty(self)))

\* discount * (p * up + (1 - p) * down)
C2_holdValue(self, up, down) ==
    Mul(Exp(Mul(-self.interest, StepFraction(self))),
        Mul(C2_p(self), up) + Mul(ToFloat(1) - C2_p(self), down))

\* C2: on an engine with steps >= 1, a price() that returns returns the
\* root of the payoff lattice; that lattice has the shape of the price
\* lattice, its last level is the payoff of each terminal price, and each
\* node above is the larger of the hold value of its two children and the
\* payoff of its own price.  With a CALL or PUT and volatility # 0,
\* price() does return.
C2_PriceIsRootOfBackwardInduction ==
    (ret.op = "price" /\ IsAmerican /\ opt.steps >= 1) =>
        /\ (opt.option_type \in OptionType /\ opt.volatility # 0) =>
              IsFloat(ret.out)
        /\ ~Raised(ret.out) =>
            /\ PriceLattice # NoTree
            /\ PayoffLattice # NoTree
            /\ ret.out = PayoffLattice[1][1]
            /\ Len(PayoffLattice) = Len(PriceLattice)
            /\ \A i \in 1..Len(PriceLattice) :
                  Len(PayoffLattice[i]) = Len(PriceLattice[i])
            /\ \A j \in 1..Len(PriceLattice[Len(PriceLattice)]) :
                  PayoffLattice[Len(PriceLattice)][j]
                    = _payoff(opt, PriceLattice[Len(PriceLattice)][j])
            /\ \A i \in 1..(Len(PriceLattice) - 1) :
                  \A j \in 1..Len(PriceLattice[i]) :
                     PayoffLattice[i][j] =
                        PyFloat(Max(C2_holdValue(opt,
                                        PayoffLattice[i + 1][2 * j - 1].val,
                                        PayoffLattice[i + 1][2 * j].val),
                                    _payoff(opt, PriceLattice[i][j]).val))

\* price() returned on a lattice of three levels or more in which some
\* node is worth more exercised than held and another more held
C2_Witness ==
    /\ ret.op = "price"
    /\ IsAmerican
    /\ opt.steps >= 3
    /\ IsFloat(ret.out)
    /\ ret.out.val > 0
    /\ \E i \in 1..(Len(PriceLattice) - 1) :
          \E j \in 1..Len(PriceLattice[i]) :
             _payoff(opt, PriceLattice[i][j]).val
               > C2_holdValue(opt, PayoffLattice[i + 1][2 * j - 1].val,
                              PayoffLattice[i + 1][2 * j].val)
    /\ \E i \in 1..(Len(PriceLattice) - 1) :
          \E j \in 1..Len(PriceLattice[i]) :
             _payoff(opt, PriceLattice[i][j]).val
               < C2_holdValue(opt, PayoffLattice[i + 1][2 * j - 1].val,
                              PayoffLattice[i + 1][2 * j].val)

\* C3: once a lattice is cached no call changes it, a price() made with
\* the payoff lattice cached returns the root it had, and price() twice in
\* a row returns the same.
C3_LatticesBuiltOnce ==
    [][IsAmerican =>
         /\ PriceLattice # NoTree => opt'.cached_price_tree = PriceLattice
         /\ PayoffLattice # NoTree => opt'.cached_payoff_tree = PayoffLattice
         /\ (PayoffLattice # NoTree /\ ret'.op = "price") =>
               ret'.out = PayoffLattice[1][1]
         /\ (ret.op = "price" /\ ret'.op = "price") => ret'.out = ret.out]_vars

\* forward() builds no payoff lattice: it was called with both cached
C3_Witness ==
    /\ IsAmerican
    /\ ret.op = "forward"
    /\ opt.steps >= 2
    /\ PriceLattice # NoTree
    /\ PayoffLattice # NoTree

\* C4: on an engine with steps >= 2 and volatility > 0, a delta() that
\* returns returns (payoffLattice[1][0] - payoffLattice[1][1]) /
\* (priceLattice[1][0] - priceLattice[1][1]): the spot prices it divides by
\* are the two level-1 nodes of the cached price lattice.  With a CALL or
\* PUT and spot > 0 it does return.
C4_DeltaOverFirstBranch ==
    (ret.op = "delta" /\ IsAmerican /\ opt.steps >= 2 /\ opt.volatility > 0) =>
        /\ (opt.option_type \in OptionType /\ opt.current_stock_price > 0) =>
              IsFloat(ret.out)
        /\ IsFloat(ret.out) =>
            /\ PriceLattice[2][1] # PriceLattice[2][2]
            /\ ret.out.val =
                  Div(PayoffLattice[2][1].val - PayoffLattice[2][2].val,
                      PriceLattice[2][1] - PriceLattice[2][2])

\* delta() returned a non-zero sensitivity on a lattice with a first branch
C4_Witness ==
    /\ ret.op = "delta"
    /\ IsAmerican
    /\ opt.steps >= 2
    /\ opt.volatility > 0
    /\ IsFloat(ret.out)
    /\ ret.out.val # 0

\* C5 as claimed: with steps == 1, delta() completes with a number.
C5_DeltaOfOneStepIsNumber ==
    (ret.op = "delta" /\ IsAmerican /\ opt.steps = 1) => IsFloat(ret.out)

\* C5, amended: with steps == 1 both lattices have the root level only, and
\* delta() ends in IndexError at payoff_tree[1], after caching them.
C5_DeltaOfOneStepRaises ==
    (ret.op = "delta" /\ IsAmerican /\ opt.steps = 1) =>
        /\ ret.out = Raise("IndexError")
        /\ PriceLattice = << <<opt.current_stock_price>> >>
        /\ Len(PayoffLattice) = 1

\* delta() was called on a CALL or PUT of one step
C5_Witness ==
    /\ ret.op = "delta"
    /\ IsAmerican
    /\ opt.steps = 1
    /\ opt.option_type \in OptionType
    /\ opt.volatility > 0
    /\ Raised(ret.out)

\* C6: a vega(b) with b # 0 that returns has priced a new engine whose
\* parameters are those of the engine but volatility * (1 + b), and returns
\* (price of the new engine - price of the engine) / b.  With a CALL or PUT,
\* steps >= 1 and volatility > 0 it does return.
C6_VegaIsBumpedDifferenceOverBump ==
    (ret.op = "vega" /\ IsAmerican /\ ret.arg # 0) =>
        /\ (opt.option_type \in OptionType /\ opt.steps >= 1
              /\ opt.volatility > 0) => IsFloat(ret.out)
        /\ IsFloat(ret.out) =>
            /\ sim.cls = "AmericanOption"
            /\ sim.option_type = opt.option_type
            /\ sim.current_stock_price = opt.current_stock_price
            /\ sim.strike_price = opt.strike_price
            /\ sim.interest = opt.interest
            /\ sim.dividend_yield = opt.dividend_yield
            /\ sim.steps = opt.steps
            /\ sim.volatility = Mul(opt.volatility, ToFloat(1) + ret.arg)
            /\ ret.out.val =
                  Div(sim.cached_payoff_tree[1][1].val - PayoffLattice[1][1].val,
                      ret.arg)

\* vega() returned a positive sensitivity for the default bump of 0.01
C6_Witness ==
    /\ ret.op = "vega"
    /\ IsAmerican
    /\ ret.arg = SCALE \div 100
    /\ opt.volatility > 0
    /\ opt.steps >= 2
    /\ IsFloat(ret.out)
    /\ ret.out.val > 0
    /\ sim.volatility # opt.volatility

\* C7: no option object holds a non-positive spot, strike or expiry, a
\* negative volatility, or steps < 1: the constructors reject them.
C7_NoObjectHoldsInvalidParameter ==
    /\ opt.current_stock_price > 0
    /\ opt.strike_price > 0
    /\ opt.volatility >= 0
    /\ opt.steps >= 1
    /\ IsEuropean => opt.time_period > 0

\* C8 as claimed: with volatility == 0 and steps >= 1, price() ends in an
\* error.
C8_ZeroVolatilityPriceFails ==
    (ret.op = "price" /\ IsAmerican /\ opt.volatility = 0 /\ opt.steps >= 1) =>
        Raised(ret.out)

\* C8, amended: with volatility == 0, price() ends in ZeroDivisionError for
\* every steps >= 2; with steps == 1 no probability is computed and it
\* returns the payoff of the spot price.
C8_ZeroVolatilityPriceFailsFromTwoSteps ==
    (ret.op = "price" /\ IsAmerican /\ opt.volatility = 0) =>
        /\ opt.steps >= 2 => ret.out = Raise("ZeroDivisionError")
        /\ opt.steps = 1 => ret.out = _payoff(opt, opt.current_stock_price)

\* price() ended in ZeroDivisionError on a lattice of zero volatility
C8_Witness ==
    /\ ret.op = "price"
    /\ IsAmerican
    /\ opt.volatility = 0
    /\ opt.steps >= 2
    /\ opt.option_type \in OptionType
    /\ ret.out = Raise("ZeroDivisionError")
    /\ PayoffLattice = NoTree

\* C9: with an option kind outside {CALL, PUT}, _payoff fails with an error
\* and so does price() of either engine, for every steps >= 1.
C9_UnsupportedKindFails ==
    (opt.option_type \notin OptionType /\ opt.steps >= 1
       /\ ret.op \in {"_payoff", "price"}) => Raised(ret.out)

RECURSIVE C10_SumOfPayoffs(_, _, _)
\* the payoffs of the discounted terminal prices of the variates
\* n + 1 .. self.steps drawn from generator g on, summed
C10_SumOfPayoffs(self, g, n) ==
    IF n >= self.steps THEN 0
    ELSE _payoff(self, _discount(self,
                    _calculate_stock_price(self, gauss(g).value))).val
           + C10_SumOfPayoffs(self, gauss(g).rng, n + 1)

\* C10: price() of a CALL or PUT with steps >= 1 scenarios draws exactly
\* steps variates, one per iteration, and returns the sum over them of the
\* payoff of the discounted terminal price, divided by steps.
C10_MonteCarloMean ==
    [][(IsEuropean /\ ret'.op = "price" /\ rng' # rng
          /\ opt.option_type \in OptionType /\ opt.steps >= 1) =>
         /\ rng'.seed = rng.seed
         /\ rng'.pos = rng.pos + opt.steps
         /\ ret'.out = PyFloat(FDiv(C10_SumOfPayoffs(opt, rng, 0), opt.steps))]_vars

\* a Monte Carlo price over two scenarios or more came out positive
C10_Witness ==
    /\ ret.op = "price"
    /\ IsEuropean
    /\ opt.steps >= 2
    /\ opt.volatility > 0
    /\ rng.pos >= opt.steps
    /\ IsFloat(ret.out)
    /\ ret.out.val > 0

C12_LatticeIsFullBinaryTree ==
    (IsAmerican /\ opt.steps >= 1 /\ PriceLattice # NoTree) =>
        /\ Len(PriceLattice) = opt.steps
        /\ PriceLattice[1] = <<opt.current_stock_price>>
        /\ \A i \in 1..opt.steps : Len(PriceLattice[i]) = 2 ^ (i - 1)
        /\ \A i \in 1..(opt.steps - 1) :
              \A j \in 1..Len(PriceLattice[i]) :
                 /\ PriceLattice[i + 1][2 * j - 1]
                      = Mul(Mul(PriceLattice[i][j], _compound(opt)),
                            _uncertainty(opt))
                 /\ PriceLattice[i + 1][2 * j]
                      = Div(Mul(PriceLattice[i][j], _compound(opt)),
                            _uncertainty(opt))

\* forward() has built a lattice of three levels or more whose up children
\* lie above their down children
C12_Witness ==
    /\ IsAmerican
    /\ ret.op = "forward"
    /\ opt.steps >= 3
    /\ opt.volatility > 0
    /\ opt.current_stock_price > 0
    /\ Len(PriceLattice[3]) = 4
    /\ PriceLattice[3][1] > PriceLattice[3][2]
    /\ PriceLattice[3][3] > PriceLattice[3][4]

\* compound() and uncertainty() for a time increment h
C13_compound(self, h) == Exp(Mul(self.interest - self.dividend_yield, h))
C13_uncertainty(self, h) == Exp(Mul(self.volatility, Sqrt(h)))

\* the up-probability for a time increment h, u # d
C13_p(self, h) ==
    Div(C13_compound(self, h)
          - Div(C13_compound(self, h), C13_uncertainty(self, h)),
        Mul(C13_compound(self, h), C13_uncertainty(self, h))
          - Div(C13_compound(self, h), C13_uncertainty(self, h)))

\* exp(-rate * h) * (p * up + (1 - p) * down) for a time increment h
C13_holdValue(self, h, up, down) ==
    Mul(Exp(Mul(-self.interest, h)),
        Mul(C13_p(self, h), up) + Mul(ToFloat(1) - C13_p(self, h), down))

\* the lattices of the engine are those of the time increment h: every
\* child in the price lattice is its parent moved by compound() and
\* uncertainty() for h, and every inner node of the payoff lattice (when
\* built) is the larger of its payoff and its hold value discounted over h
C13_LatticesUse(h) ==
    /\ \A i \in 1..(Len(PriceLattice) - 1) :
          \A j \in 1..Len(PriceLattice[i]) :
             /\ PriceLattice[i + 1][2 * j - 1]
                  = Mul(Mul(PriceLattice[i][j], C13_compound(opt, h)),
                        C13_uncertainty(opt, h))
             /\ PriceLattice[i + 1][2 * j]
                  = Div(Mul(PriceLattice[i][j], C13_compound(opt, h)),
                        C13_uncertainty(opt, h))
    /\ PayoffLattice # NoTree =>
          \A i \in 1..(Len(PriceLattice) - 1) :
             \A j \in 1..Len(PriceLattice[i]) :
                PayoffLattice[i][j] =
                   PyFloat(Max(C13_holdValue(opt, h,
                                   PayoffLattice[i + 1][2 * j - 1].val,
                                   PayoffLattice[i + 1][2 * j].val),
                               _payoff(opt, PriceLattice[i][j]).val))

C14_Uncached(self) ==
    [self EXCEPT !.cached_price_tree = NoTree, !.cached_payoff_tree = NoTree]

C15_CachesAreNeverStale ==
    IsAmerican =>
        /\ PriceLattice # NoTree =>
              PriceLattice = forward(C14_Uncached(opt)).tree
        /\ PayoffLattice # NoTree =>
              PayoffLattice = BackwardOf(forward(C14_Uncached(opt))).tree
        /\ (ret.op = "price" /\ ~Raised(ret.out)) =>
              ret.out = price(C14_Uncached(opt)).out

\* the engine main() keeps under the name
C16_Engine(name) == IF name = "european_call" THEN opt ELSE other

\* C16: the outcome of an engine's price() does not depend on whether the
\* other engine's price() ran before it since the seed was set: made as the
\* first call after random.seed(a), or right after the other engine's
\* price() that was the first call, it is the same, the mean over the
\* scenarios of the stream of a from its start.
C16_EnginesShareNoStream ==
    [][(/\ ret'.op = "price"
        /\ \/ FirstUse
           \/ /\ ret.op = "price"
              /\ ret.arg # ret'.arg
              /\ priced[ret.arg].fresh) =>
          ret'.out = european_price(C16_Engine(ret'.arg), seed(rng.seed)).out]_vars

=============================================================================
